---------------------------- MODULE Spec2Model ----------------------------
(***************************************************************************)
(* Braidz GUI (src/main.py): a Qt controller (MainWindow) that loads a     *)
(* trajectory table on a QThreadPool worker (Worker.run) and filters the   *)
(* loaded table with a three stage pipeline (populate_list).               *)
(*                                                                         *)
(* Positions and thresholds are fixed point numbers in hundredths          *)
(* (0.25 is 25); sample counts and min_obs are plain integers.             *)
(***************************************************************************)
EXTENDS Integers, Sequences, FiniteSets, TLC

(***************************************************************************)
(* Bounds of the model.                                                    *)
(***************************************************************************)
\* number of loads (clicks on "Browse...") in one run
MaxTasks == 2
\* QThreadPool.maxThreadCount(): the host's ideal thread count
MaxThreads == 2
\* number of threshold edits / axis toggles in one run
MaxEdits == 1
\* rows of a Dataset drawn for the pipeline specification
MaxRows == 2

VARIABLES
    df,              \* self.df
    min_obs,         \* self.min_obs
    xlim,            \* self.xlim (a list)
    ylim,            \* self.ylim
    zlim,            \* self.zlim
    dist,            \* self.dist
    axes_to_filter,  \* self.axes_to_filter (a list of axis names)
    file_name,       \* self.file_name
    status_line,     \* self.status_line.text()
    texts,           \* the five QLineEdit texts
    checks,          \* the three QCheckBox states
    enabled,         \* the threshold widgets are enabled
    obj_list,        \* the items of self.obj_list_widget
    stages,          \* populate_list's locals: the ids after each stage and
                     \* the rows handed to stages 2 and 3
    dialog,          \* the modal file dialog is open (nested event loop)
    workers,         \* the Worker objects, in submission order, each with
                     \* what was emitted, delivered and shown for it
    events,          \* the main thread's queue of posted (queued) signals
    alive,           \* the process has not been aborted
    ctx,             \* the context (thread) that executed the last step
    edits,           \* edits made so far (bounded by MaxEdits)
    last,            \* the populate_list run before the latest one
    writes           \* the tasks whose result get_data stored, in order

vars == <<df, min_obs, xlim, ylim, zlim, dist, axes_to_filter, file_name,
          status_line, texts, checks, enabled, obj_list, stages, dialog,
          workers, events, alive, ctx, edits, last, writes>>

(***************************************************************************)
(* Data: a DataFrame is its column presence and its rows.                  *)
(***************************************************************************)
Sample(i, x, y, z) == [obj_id |-> i, x |-> x, y |-> y, z |-> z]

\* pd.DataFrame([]): no rows and no columns
EmptyFrame == [has_columns |-> FALSE, rows |-> <<>>]

Frame(rows) == [has_columns |-> TRUE, rows |-> rows]

(***************************************************************************)
(* braid_slicing (package braid_analysis): the three stage filters.        *)
(* Each takes the rows of a frame and returns a set of obj_id.             *)
(***************************************************************************)
ObjIds(rows) == {rows[i].obj_id : i \in DOMAIN rows}

RowsOf(rows, id) == {i \in DOMAIN rows : rows[i].obj_id = id}

SetMax(S) == CHOOSE m \in S : \A n \in S : n <= m

SetMin(S) == CHOOSE m \in S : \A n \in S : m <= n

\* max - min of one axis over the samples of id
Extent(rows, id, a) ==
    LET vals == {rows[i][a] : i \in RowsOf(rows, id)}
    IN  SetMax(vals) - SetMin(vals)

get_long_obj_ids_fast_pandas(rows, length) ==
    {id \in ObjIds(rows) : Cardinality(RowsOf(rows, id)) >= length}

get_middle_of_tunnel_obj_ids_fast_pandas(rows, zmin, zmax, ymin, ymax, xmin, xmax) ==
    {id \in ObjIds(rows) :
        \A i \in RowsOf(rows, id) :
            /\ xmin <= rows[i].x /\ rows[i].x <= xmax
            /\ ymin <= rows[i].y /\ rows[i].y <= ymax
            /\ zmin <= rows[i].z /\ rows[i].z <= zmax}

get_trajectories_that_travel_far(rows, axis, dist_travelled) ==
    {id \in ObjIds(rows) :
        \A k \in DOMAIN axis : Extent(rows, id, axis[k]) >= dist_travelled}

IsIn_whole_table(rows, ids) == rows

\* self.df[self.df['obj_id'].isin(obj_ids)]
IsIn(rows, ids) == SelectSeq(rows, LAMBDA s : s.obj_id \in ids)

Range(f) == {f[i] : i \in DOMAIN f}

RECURSIVE sorted_descending(_)
sorted_descending(S) ==
    IF S = {} THEN <<>>
    ELSE LET m == SetMax(S) IN <<m>> \o sorted_descending(S \ {m})

\* sorted(obj_ids)
RECURSIVE sorted(_)
sorted(S) ==
    IF S = {} THEN <<>>
    ELSE LET m == SetMin(S) IN <<m>> \o sorted(S \ {m})

(***************************************************************************)
(* Text: a string is a sequence of one character strings.                  *)
(***************************************************************************)
Digit == {"0", "1", "2", "3", "4", "5", "6", "7", "8", "9"}

DigitVal(c) ==
    CASE c = "0" -> 0 [] c = "1" -> 1 [] c = "2" -> 2 [] c = "3" -> 3
      [] c = "4" -> 4 [] c = "5" -> 5 [] c = "6" -> 6 [] c = "7" -> 7
      [] c = "8" -> 8 [] c = "9" -> 9

\* str(obj) of a non-negative integer: its decimal digits
RECURSIVE str(_)
str(n) ==
    LET c == CHOOSE ch \in Digit : DigitVal(ch) = n % 10
    IN  IF n < 10 THEN <<c>> ELSE str(n \div 10) \o <<c>>

\* [str(obj) for obj in ids]
ItemTexts(ids) == [k \in DOMAIN ids |-> str(ids[k])]

(***************************************************************************)
(* MainWindow.populate_list: the three calls and the list it displays.     *)
(* A Python list l is a sequence: l[0] is l[1] here, l[1] is l[2].         *)
(***************************************************************************)
Stage1_zero_is_unset(frame, mo) ==
    get_long_obj_ids_fast_pandas(frame.rows, IF mo = 0 THEN 1000 ELSE mo)

\* line 282
Stage1(frame, mo) == get_long_obj_ids_fast_pandas(frame.rows, mo)

Stage2_limits_swapped(frame, s1, xl, yl, zl) ==
    get_middle_of_tunnel_obj_ids_fast_pandas(
        IsIn(frame.rows, s1), yl[1], yl[2], zl[1], zl[2], xl[1], xl[2])

\* lines 288-293
Stage2(frame, s1, xl, yl, zl) ==
    get_middle_of_tunnel_obj_ids_fast_pandas(
        IsIn(frame.rows, s1), zl[1], zl[2], yl[1], yl[2], xl[1], xl[2])

Stage3_first_axis_only(frame, s2, ax, d) ==
    get_trajectories_that_travel_far(IsIn(frame.rows, s2), SubSeq(ax, 1, 1), d)

\* lines 295-299
Stage3(frame, s2, ax, d) ==
    get_trajectories_that_travel_far(IsIn(frame.rows, s2), ax, d)

\* what populate_list leaves when a line of it raises: the list was cleared
\* (line 281) and nothing was added
Raised ==
    [raised |-> TRUE, s1 |-> {}, in2 |-> <<>>, s2 |-> {}, in3 |-> <<>>,
     s3 |-> {}, items |-> <<>>]

\* KeyError: the frame has no obj_id column (lines 282, 289);
\* IndexError: a limit list has fewer than two numbers (lines 290-292)
PopulateRaises(frame, xl, yl, zl) ==
    \/ ~frame.has_columns
    \/ Len(xl) < 2 \/ Len(yl) < 2 \/ Len(zl) < 2

populate_list(frame, mo, xl, yl, zl, ax, d) ==
    IF PopulateRaises(frame, xl, yl, zl) THEN Raised
    ELSE LET s1 == Stage1(frame, mo)
             s2 == Stage2(frame, s1, xl, yl, zl)
             s3 == Stage3(frame, s2, ax, d)
         IN  [raised |-> FALSE, s1 |-> s1, in2 |-> IsIn(frame.rows, s1),
              s2 |-> s2, in3 |-> IsIn(frame.rows, s2), s3 |-> s3,
              items |-> ItemTexts(sorted(s3))]

(***************************************************************************)
(* MainWindow.update_values: the texts of the line edits are scanned with  *)
(* regular expressions and converted by fast_real.                         *)
(***************************************************************************)
\* the index after the longest run of digits starting at i
RECURSIVE DigitsEnd(_, _)
DigitsEnd(t, i) ==
    IF i <= Len(t) /\ t[i] \in Digit THEN DigitsEnd(t, i + 1) ELSE i

\* re.compile(r'\d+').findall(t)
RECURSIVE FindAllDigits(_, _)
FindAllDigits(t, i) ==
    IF i > Len(t) THEN <<>>
    ELSE IF t[i] \in Digit
         THEN LET e == DigitsEnd(t, i)
              IN  <<SubSeq(t, i, e - 1)>> \o FindAllDigits(t, e)
         ELSE FindAllDigits(t, i + 1)

\* where a match of -?\d+\.?\d? starting at i ends (exclusive); 0: no match
MatchNumber(t, i) ==
    LET s == IF t[i] = "-" THEN i + 1 ELSE i
    IN  IF s <= Len(t) /\ t[s] \in Digit
        THEN LET e1 == DigitsEnd(t, s)
                 e2 == IF e1 <= Len(t) /\ t[e1] = "." THEN e1 + 1 ELSE e1
             IN  IF e2 <= Len(t) /\ t[e2] \in Digit THEN e2 + 1 ELSE e2
        ELSE 0

\* re.compile(r'-?\d+\.?\d?').findall(t)
RECURSIVE FindAllNumbers(_, _)
FindAllNumbers(t, i) ==
    IF i > Len(t) THEN <<>>
    ELSE LET e == MatchNumber(t, i)
         IN  IF e = 0 THEN FindAllNumbers(t, i + 1)
             ELSE <<SubSeq(t, i, e - 1)>> \o FindAllNumbers(t, e)

\* the value of a run of digits
RECURSIVE IntOf(_)
IntOf(ds) ==
    IF ds = <<>> THEN 0
    ELSE 10 * IntOf(SubSeq(ds, 1, Len(ds) - 1)) + DigitVal(ds[Len(ds)])

\* fast_real of a matched token, in hundredths
fast_real(tok) ==
    LET neg  == tok[1] = "-"
        body == IF neg THEN Tail(tok) ELSE tok
        e    == DigitsEnd(body, 1)
        frac == IF e + 1 <= Len(body) THEN DigitVal(body[e + 1]) ELSE 0
        mag  == 100 * IntOf(SubSeq(body, 1, e - 1)) + 10 * frac
    IN  IF neg THEN 0 - mag ELSE mag

\* [fast_real(i) for i in p.findall(text)]
ParseList(t) ==
    LET toks == FindAllNumbers(t, 1)
    IN  [k \in DOMAIN toks |-> fast_real(toks[k])]

\* list(compress(['x', 'y', 'z'], buttons_state))
Compress(state) ==
    SelectSeq(<<"x", "y", "z">>, LAMBDA a : state[a])

(***************************************************************************)
(* MainWindow.open_file and the files it can be given. A path is its stem  *)
(* and its extension; the empty path is what a cancelled dialog returns.   *)
(***************************************************************************)
Path(stem, ext) == [stem |-> stem, ext |-> ext]

NoPath == Path("", "")

\* Python's None
None == [none |-> TRUE]

\* an exception object
Exception(kind) == [exception |-> kind]

\* a.braidz: objects 1 (three samples) and 2 (one sample)
RowsA == <<Sample(1, 0, 0, 10), Sample(2, 0, 0, 10),
           Sample(1, 20, 0, 10), Sample(1, 10, 0, 20)>>

\* b.h5: object 3 (one sample), 4 (one sample above the z limit), 5 (short
\* extents) and 6 (extent 0.2 on every axis)
RowsB == <<Sample(3, 0, 0, 10), Sample(4, 0, 0, 10), Sample(5, 0, 0, 10),
           Sample(6, 0, 0, 10), Sample(4, 0, 0, 40), Sample(5, 10, 0, 10),
           Sample(6, 20, 20, 30)>>

\* self.min_obs of __init__
DefaultMinObs == 1000

\* long.braidz: object 7 with as many samples as the initial min_obs, one
\* of them outside the initial x limits and inside the limits that their
\* text parses to
RowsLong ==
    [i \in 1..DefaultMinObs |-> Sample(7, IF i = 1 THEN 30 ELSE 0, 0, 10)]

\* what reading each path does: a table, or an exception of the reader
Disk ==
    (Path("a", ".braidz") :> [ok |-> TRUE, value |-> Frame(RowsA)]) @@
    (Path("b", ".h5") :> [ok |-> TRUE, value |-> Frame(RowsB)]) @@
    (Path("long", ".braidz") :> [ok |-> TRUE, value |-> Frame(RowsLong)]) @@
    (Path("bad", ".braidz") :> [ok |-> FALSE, value |-> Exception("BadZipFile")]) @@
    (Path("notes", ".txt") :> [ok |-> FALSE, value |-> Exception("unread")])

\* the long table is loaded on its own (LongSpec)
LongPaths == {Path("long", ".braidz")}

Paths == (DOMAIN Disk \ LongPaths) \cup {NoPath}

open_file_empty_table(path) ==
    IF path # NoPath /\ path.ext \in {".braidz", ".h5"}
    THEN Disk[path]
    ELSE [ok |-> TRUE, value |-> EmptyFrame]

\* the return value of open_file, or the exception it raises: with an empty
\* path or another extension no branch assigns df and "return df" raises
open_file(path) ==
    IF path # NoPath /\ path.ext \in {".braidz", ".h5"}
    THEN Disk[path]
    ELSE [ok |-> FALSE, value |-> Exception("UnboundLocalError")]


(***************************************************************************)
(* Qt: the connections made in open_file_callback and where code runs.     *)
(***************************************************************************)
Connections_error_to_get_data ==
    [finished |-> "thread_complete", result |-> "get_data", error |-> "get_data"]

\* lines 324-325: finished and result are connected, error is not
Connections ==
    [finished |-> "thread_complete", result |-> "get_data", error |-> "none"]

\* line 326: thread_pool.start(worker) runs Worker.run on a pool thread
RunContext == "worker"

SlotContext_direct == RunContext

\* lines 324-325: the slots are methods of MainWindow, which lives in the
\* main thread, so a signal emitted on a pool thread is queued to it
SlotContext == "main"

Emit_twice(t, signal, arg) ==
    IF Connections[signal] = "none" THEN events
    ELSE events \o <<[task |-> t, signal |-> signal, arg |-> arg],
                     [task |-> t, signal |-> signal, arg |-> arg]>>

\* signal.emit(arg) on a pool thread: one queued call per connected slot
Emit(t, signal, arg) ==
    IF Connections[signal] = "none" THEN events
    ELSE Append(events, [task |-> t, signal |-> signal, arg |-> arg])

(***************************************************************************)
(* The initial state: MainWindow.__init__ and initialize_ui.               *)
(***************************************************************************)
\* str(self.min_obs), str(self.xlim), str(self.zlim), str(self.dist)
InitTexts ==
    [min_obs |-> <<"1", "0", "0", "0">>,
     xlim |-> <<"[", "-", "0", ".", "2", "5", ",", " ", "0", ".", "2", "5", "]">>,
     ylim |-> <<"[", "-", "0", ".", "2", "5", ",", " ", "0", ".", "2", "5", "]">>,
     zlim |-> <<"[", "0", ".", "0", ",", " ", "0", ".", "3", "]">>,
     dist |-> <<"0", ".", "0">>]

NoRun == [ran |-> FALSE]

Init ==
    /\ df = EmptyFrame
    /\ min_obs = DefaultMinObs
    /\ xlim = <<-25, 25>>
    /\ ylim = <<-25, 25>>
    /\ zlim = <<0, 30>>
    /\ dist = 0
    /\ axes_to_filter = <<"x", "y", "z">>
    /\ file_name = None
    /\ status_line = "Waiting..."
    /\ texts = InitTexts
    /\ checks = [x |-> TRUE, y |-> TRUE, z |-> TRUE]
    /\ enabled = FALSE
    /\ obj_list = <<>>
    /\ stages = NoRun
    /\ dialog = FALSE
    /\ workers = <<>>
    /\ events = <<>>
    /\ alive = TRUE
    /\ ctx = "main"
    /\ edits = 0
    /\ last = NoRun
    /\ writes = <<>>

(***************************************************************************)
(* populate_list as a step of the main thread. An exception that leaves a  *)
(* slot is not caught by the program: PyQt5 prints it and, from 5.5 on,    *)
(* calls qFatal(), which aborts the process; older versions return to the  *)
(* event loop. Both outcomes are possible.                                 *)
(***************************************************************************)
SlotRaised == alive' \in {TRUE, FALSE}

SlotReturned == alive' = TRUE

Display_not_cleared(old, new) == old \o new

\* obj_list_widget.clear() (line 281), then addItems (line 304)
Display(old, new) == new

DoPopulate(frame, mo, xl, yl, zl, ax, d) ==
    LET r == populate_list(frame, mo, xl, yl, zl, ax, d)
    IN  /\ obj_list' = Display(obj_list, r.items)
        /\ stages' = [ran |-> TRUE, raised |-> r.raised, frame |-> frame,
                      mo |-> mo, xl |-> xl, yl |-> yl, zl |-> zl,
                      ax |-> ax, d |-> d,
                      s1 |-> r.s1, in2 |-> r.in2, s2 |-> r.s2, in3 |-> r.in3,
                      s3 |-> r.s3, items |-> r.items]
        /\ last' = stages
        /\ enabled' = (enabled \/ ~r.raised)
        /\ IF r.raised THEN SlotRaised ELSE SlotReturned

(***************************************************************************)
(* MainWindow.open_file_callback: the modal dialog (lines 317-321), during *)
(* which the main thread keeps delivering queued signals, then the         *)
(* submission (lines 322-326).                                             *)
(***************************************************************************)
OpenDialog ==
    /\ alive /\ ~dialog
    /\ Len(workers) < MaxTasks
    /\ dialog' = TRUE
    /\ ctx' = "main"
    /\ UNCHANGED <<df, min_obs, xlim, ylim, zlim, dist, axes_to_filter,
                   file_name, status_line, texts, checks, enabled, obj_list,
                   stages, workers, events, alive, edits, last, writes>>

Worker(path) ==
    [file |-> path, pc |-> "queued", outcome |-> [ok |-> FALSE, value |-> None],
     ran_on |-> "none", emitted |-> <<>>, delivered |-> <<>>,
     df_at_submit |-> df, writes_at_submit |-> Len(writes),
     in_flight_at_submit |->
         {u \in DOMAIN workers : "finished" \notin Range(workers[u].delivered)},
     shown_from |-> 0]

CloseDialog(path) ==
    /\ alive /\ dialog
    /\ dialog' = FALSE
    /\ file_name' = path
    /\ status_line' = "Opening file..."
    /\ workers' = Append(workers, Worker(path))
    /\ ctx' = "main"
    /\ UNCHANGED <<df, min_obs, xlim, ylim, zlim, dist, axes_to_filter,
                   texts, checks, enabled, obj_list, stages, events, alive,
                   edits, last, writes>>

(***************************************************************************)
(* Worker.run on a pool thread: the call (lines 98-101), the outcome's     *)
(* signal (lines 102-107) and finished (lines 108-109).                    *)
(***************************************************************************)
Active == {t \in DOMAIN workers : workers[t].pc \in {"ranfn", "emitted"}}

\* tasks are taken from the pool's queue first in, first out
RunFn(t) ==
    /\ alive
    /\ workers[t].pc = "queued"
    /\ Cardinality(Active) < MaxThreads
    /\ \A u \in 1..(t - 1) : workers[u].pc # "queued"
    /\ workers' = [workers EXCEPT ![t].pc = "ranfn",
                                  ![t].outcome = open_file(workers[t].file),
                                  ![t].ran_on = RunContext]
    /\ ctx' = RunContext
    /\ UNCHANGED <<df, min_obs, xlim, ylim, zlim, dist, axes_to_filter,
                   file_name, status_line, texts, checks, enabled, obj_list,
                   stages, dialog, events, alive, edits, last, writes>>

OutcomeSignal_always_result(outcome) == "result"

\* except: error.emit(...)   else: result.emit(result)
OutcomeSignal(outcome) == IF outcome.ok THEN "result" ELSE "error"

EmitOutcome(t) ==
    /\ alive
    /\ workers[t].pc = "ranfn"
    /\ LET sig == OutcomeSignal(workers[t].outcome)
       IN  /\ workers' = [workers EXCEPT ![t].pc = "emitted",
                                         ![t].emitted = Append(@, sig)]
           /\ events' = Emit(t, sig, workers[t].outcome.value)
    /\ ctx' = RunContext
    /\ UNCHANGED <<df, min_obs, xlim, ylim, zlim, dist, axes_to_filter,
                   file_name, status_line, texts, checks, enabled, obj_list,
                   stages, dialog, alive, edits, last, writes>>

EmitFinished(t) ==
    /\ alive
    /\ workers[t].pc = "emitted"
    /\ workers' = [workers EXCEPT ![t].pc = "done",
                                  ![t].emitted = Append(@, "finished")]
    /\ events' = Emit(t, "finished", None)
    /\ ctx' = RunContext
    /\ UNCHANGED <<df, min_obs, xlim, ylim, zlim, dist, axes_to_filter,
                   file_name, status_line, texts, checks, enabled, obj_list,
                   stages, dialog, alive, edits, last, writes>>

(***************************************************************************)
(* The main thread's event loop delivers the oldest queued signal to its   *)
(* slot: get_data (lines 332-333) or thread_complete (lines 328-330).      *)
(***************************************************************************)
\* the task whose result self.df is; 0: the frame of __init__
Stored == IF writes = <<>> THEN 0 ELSE writes[Len(writes)]

get_data(t, result) ==
    /\ df' = result
    /\ writes' = Append(writes, t)
    /\ SlotReturned
    /\ UNCHANGED <<status_line, obj_list, stages, last, enabled>>

thread_complete ==
    /\ status_line' = "Finished opening"
    /\ DoPopulate(df, min_obs, xlim, ylim, zlim, axes_to_filter, dist)
    /\ UNCHANGED <<df, writes>>

Deliver ==
    /\ alive
    /\ events # <<>>
    /\ LET ev == Head(events)
       IN  /\ events' = Tail(events)
           /\ workers' = [workers EXCEPT
                            ![ev.task].delivered = Append(@, ev.signal),
                            ![ev.task].shown_from =
                                IF Connections[ev.signal] = "get_data" THEN @
                                ELSE Stored]
           /\ IF Connections[ev.signal] = "get_data"
              THEN get_data(ev.task, ev.arg)
              ELSE thread_complete
    /\ ctx' = SlotContext
    /\ UNCHANGED <<min_obs, xlim, ylim, zlim, dist, axes_to_filter,
                   file_name, texts, checks, dialog, edits>>


(***************************************************************************)
(* MainWindow.update_values (returnPressed of a line edit) and axes_select *)
(* (stateChanged of a check box). The widgets are disabled until the first *)
(* populate_list run that returns, and blocked while the dialog is open.   *)
(***************************************************************************)
\* what the user types into each line edit before pressing return
TextChoices ==
    [min_obs |-> {<<"0">>, <<"2">>, <<>>},
     xlim |-> {<<"-", "0", ".", "3", " ", "0">>, <<"0">>,
               <<"0", ".", "3", " ", "0">>},
     ylim |-> {<<"0", " ", "0", ".", "1">>},
     zlim |-> {<<"0", ".", "1", " ", "0", ".", "3">>},
     dist |-> {<<"0", ".", "2">>, <<"0", ".", "3">>, <<"m">>}]

Widgets == DOMAIN TextChoices

\* fast_real of a run of digits is an int, not scaled
MinObsOf(tok) == fast_real(tok) \div 100

update_values(tx) ==
    LET mo == FindAllDigits(tx.min_obs, 1)
        ds == FindAllNumbers(tx.dist, 1)
    IN  IF mo = <<>>
        THEN \* line 266: IndexError
             /\ SlotRaised
             /\ UNCHANGED <<min_obs, xlim, ylim, zlim, dist, obj_list,
                            stages, last, enabled>>
        ELSE /\ min_obs' = MinObsOf(mo[1])
             /\ xlim' = ParseList(tx.xlim)
             /\ ylim' = ParseList(tx.ylim)
             /\ zlim' = ParseList(tx.zlim)
             /\ IF ds = <<>>
                THEN \* line 272: IndexError
                     /\ SlotRaised
                     /\ UNCHANGED <<dist, obj_list, stages, last, enabled>>
                ELSE /\ dist' = fast_real(ds[1])
                     /\ DoPopulate(df, min_obs', xlim', ylim', zlim',
                                   axes_to_filter, dist')

UpdateValues(w, t) ==
    /\ alive /\ enabled /\ ~dialog
    /\ edits < MaxEdits
    /\ edits' = edits + 1
    /\ texts' = [texts EXCEPT ![w] = t]
    /\ update_values(texts')
    /\ ctx' = "main"
    /\ UNCHANGED <<df, axes_to_filter, file_name, status_line, checks,
                   dialog, workers, events, writes>>

axes_select(state) ==
    /\ axes_to_filter' = Compress(state)
    /\ DoPopulate(df, min_obs, xlim, ylim, zlim, axes_to_filter', dist)

AxesSelect(a) ==
    /\ alive /\ enabled /\ ~dialog
    /\ edits < MaxEdits
    /\ edits' = edits + 1
    /\ checks' = [checks EXCEPT ![a] = ~@]
    /\ axes_select(checks')
    /\ ctx' = "main"
    /\ UNCHANGED <<df, min_obs, xlim, ylim, zlim, dist, file_name,
                   status_line, texts, dialog, workers, events, writes>>

(***************************************************************************)
(* The program: loads, workers, deliveries and edits in any interleaving.  *)
(***************************************************************************)
Next ==
    \/ OpenDialog
    \/ \E path \in Paths : CloseDialog(path)
    \/ \E t \in DOMAIN workers : RunFn(t)
    \/ \E t \in DOMAIN workers : EmitOutcome(t)
    \/ \E t \in DOMAIN workers : EmitFinished(t)
    \/ Deliver
    \/ \E w \in Widgets : \E t \in TextChoices[w] : UpdateValues(w, t)
    \/ \E a \in {"x", "y", "z"} : AxesSelect(a)

Spec == Init /\ [][Next]_vars

\* the pool runs every started worker on, and the event loop delivers
\* every queued signal; the user need not do anything
Fairness ==
    /\ \A t \in 1..MaxTasks : WF_vars(t \in DOMAIN workers /\ RunFn(t))
    /\ \A t \in 1..MaxTasks : WF_vars(t \in DOMAIN workers /\ EmitOutcome(t))
    /\ \A t \in 1..MaxTasks : WF_vars(t \in DOMAIN workers /\ EmitFinished(t))
    /\ WF_vars(Deliver)

FairSpec == Spec /\ Fairness

\* loads only: the user edits no threshold
LoadNext ==
    \/ OpenDialog
    \/ \E path \in Paths : CloseDialog(path)
    \/ \E t \in DOMAIN workers : RunFn(t)
    \/ \E t \in DOMAIN workers : EmitOutcome(t)
    \/ \E t \in DOMAIN workers : EmitFinished(t)
    \/ Deliver

LoadSpec == Init /\ [][LoadNext]_vars

\* the program with the long table as the file that is opened
LongNext ==
    \/ OpenDialog
    \/ \E path \in LongPaths : CloseDialog(path)
    \/ \E t \in DOMAIN workers : RunFn(t)
    \/ \E t \in DOMAIN workers : EmitOutcome(t)
    \/ \E t \in DOMAIN workers : EmitFinished(t)
    \/ Deliver
    \/ \E w \in Widgets : \E t \in TextChoices[w] : UpdateValues(w, t)
    \/ \E a \in {"x", "y", "z"} : AxesSelect(a)

LongSpec == Init /\ [][LongNext]_vars

FairLoadSpec == LoadSpec /\ Fairness

(***************************************************************************)
(* The pipeline on its own: a table (one of the files, or one drawn from a *)
(* bounded set) has been loaded and return pressed once, with min_obs (and *)
(* perhaps dist) edited; from there only edits happen.                     *)
(***************************************************************************)
\* inside every box; outside the x limits the untouched text parses to, on
\* the edge of the edited ones; above the z limits; on the lower x and the
\* upper z limit
Points ==
    {<<0, 0, 10>>, <<-30, 0, 10>>, <<0, 0, 40>>, <<-20, 20, 30>>}

Samples == {Sample(i, p[1], p[2], p[3]) : i \in {2, 10}, p \in Points}

Datasets ==
    UNION {[1..n -> Samples] : n \in 1..MaxRows}

PipeInit ==
    /\ df \in {Frame(rows) : rows \in Datasets \cup {RowsA, RowsB}}
    /\ \E t \in {<<"1">>, <<"2">>} :
       \E u \in {InitTexts.dist, <<"0", ".", "2">>} :
         /\ texts = [InitTexts EXCEPT !.min_obs = t, !.dist = u]
         /\ min_obs = MinObsOf(FindAllDigits(t, 1)[1])
         /\ dist = fast_real(FindAllNumbers(u, 1)[1])
    /\ xlim = ParseList(InitTexts.xlim)
    /\ ylim = ParseList(InitTexts.ylim)
    /\ zlim = ParseList(InitTexts.zlim)
    /\ axes_to_filter = <<"x", "y", "z">>
    /\ checks = [x |-> TRUE, y |-> TRUE, z |-> TRUE]
    /\ file_name = Path("data", ".braidz")
    /\ status_line = "Finished opening"
    /\ enabled = TRUE
    /\ LET r == populate_list(df, min_obs, xlim, ylim, zlim, axes_to_filter, dist)
           r0 == populate_list(df, DefaultMinObs, <<-25, 25>>, <<-25, 25>>,
                               <<0, 30>>, axes_to_filter, 0)
       IN  /\ obj_list = r.items
           /\ stages = [ran |-> TRUE, raised |-> r.raised, frame |-> df,
                        mo |-> min_obs, xl |-> xlim, yl |-> ylim, zl |-> zlim,
                        ax |-> axes_to_filter, d |-> dist,
                        s1 |-> r.s1, in2 |-> r.in2, s2 |-> r.s2, in3 |-> r.in3,
                        s3 |-> r.s3, items |-> r.items]
           /\ last = [ran |-> TRUE, raised |-> r0.raised, frame |-> df,
                      mo |-> DefaultMinObs, xl |-> <<-25, 25>>, yl |-> <<-25, 25>>,
                      zl |-> <<0, 30>>, ax |-> axes_to_filter, d |-> 0,
                      s1 |-> r0.s1, in2 |-> r0.in2, s2 |-> r0.s2, in3 |-> r0.in3,
                      s3 |-> r0.s3, items |-> r0.items]
    /\ dialog = FALSE
    /\ workers = <<[file |-> file_name, pc |-> "done",
                    outcome |-> [ok |-> TRUE, value |-> df],
                    ran_on |-> RunContext,
                    emitted |-> <<"result", "finished">>,
                    delivered |-> <<"result", "finished">>,
                    df_at_submit |-> EmptyFrame, writes_at_submit |-> 0,
                    in_flight_at_submit |-> {}, shown_from |-> 1]>>
    /\ events = <<>>
    /\ alive = TRUE
    /\ ctx = "main"
    /\ edits = 0
    /\ writes = <<1>>

PipeNext ==
    \/ \E w \in Widgets : \E t \in TextChoices[w] : UpdateValues(w, t)
    \/ \E a \in {"x", "y", "z"} : AxesSelect(a)

PipeSpec == PipeInit /\ [][PipeNext]_vars


(***************************************************************************)
(* Properties of the task runner (Worker.run and its slots).               *)
(***************************************************************************)
Ran(t) == workers[t].pc # "queued"

Failed(t) == Ran(t) /\ ~workers[t].outcome.ok

Succeeded(t) == Ran(t) /\ workers[t].outcome.ok

\* the controller has handled the task's finished signal
Completed(t) == "finished" \in Range(workers[t].delivered)

IsPrefix(p, q) == Len(p) <= Len(q) /\ SubSeq(q, 1, Len(p)) = p

\* C1: a task whose operation raises emits exactly one error and then
\* exactly one finished, and never a result: what it has emitted is at any
\* time a prefix of <<error, finished>>, and all of it once run has returned.
C1_RaisingTaskSignals ==
    \A t \in DOMAIN workers :
        Failed(t) =>
            /\ IsPrefix(workers[t].emitted, <<"error", "finished">>)
            /\ workers[t].pc = "emitted" => workers[t].emitted = <<"error">>
            /\ workers[t].pc = "done" =>
                   workers[t].emitted = <<"error", "finished">>

C1_Witness ==
    \E t \in DOMAIN workers :
        /\ Failed(t) /\ workers[t].pc = "done"
        /\ workers[t].emitted = <<"error", "finished">>

\* C2: every task emits exactly one of result and error, once, and then
\* finished, once and last; and the controller is handed each connected
\* signal at most once, in the order of emission.
C2_OneOutcomeThenFinished ==
    \A t \in DOMAIN workers :
        LET e == workers[t].emitted
        IN  /\ Len(e) <= 2
            /\ Len(e) >= 1 => e[1] \in {"result", "error"}
            /\ Len(e) = 2 => e[2] = "finished"
            /\ Len(e) = 2 <=> workers[t].pc = "done"
            /\ Len(e) = 0 <=> workers[t].pc \in {"queued", "ranfn"}
            /\ IsPrefix(workers[t].delivered,
                        SelectSeq(e, LAMBDA sg : sg \in {"result", "finished"}))

C2_Witness ==
    /\ \E t \in DOMAIN workers :
          /\ workers[t].emitted = <<"result", "finished">>
          /\ workers[t].delivered = <<"result", "finished">>
    /\ \E t \in DOMAIN workers :
          /\ workers[t].emitted = <<"error", "finished">>
          /\ workers[t].delivered = <<"finished">>

\* C3 as claimed: after a failed load has completed, the Dataset is the one
\* held when the load was submitted.
C3_FailedLoadKeepsSubmitTimeDataset ==
    \A t \in DOMAIN workers :
        Failed(t) /\ Completed(t) => df = workers[t].df_at_submit

\* the Dataset the controller holds: the last stored result, or the initial
\* empty frame
LastWritten ==
    IF writes = <<>> THEN EmptyFrame
    ELSE workers[writes[Len(writes)]].outcome.value

\* C3 amended: a failed load never stores anything: the Dataset is always
\* the result of the last successful load delivered (or the initial empty
\* frame), and after a failed load has completed it is the one held at the
\* load's submission unless the result of another load was stored meanwhile.
C3_FailedLoadStoresNothing ==
    /\ df = LastWritten
    /\ \A k \in DOMAIN writes : Succeeded(writes[k])
    /\ \A t \in DOMAIN workers :
          Failed(t) /\ Completed(t) /\ Len(writes) = workers[t].writes_at_submit
              => df = workers[t].df_at_submit

C3_Witness ==
    \E t \in DOMAIN workers :
        /\ Failed(t) /\ Completed(t)
        /\ Len(writes) = workers[t].writes_at_submit
        /\ df = workers[t].df_at_submit
        /\ df.has_columns

\* C4: when a load is submitted while an earlier one is in flight and both
\* have completed successfully, the Dataset is the one of the load submitted
\* last.
C4_LatestSubmissionWins ==
    \A u \in DOMAIN workers :
        \A t \in workers[u].in_flight_at_submit :
            /\ u = Len(workers)
            /\ Succeeded(t) /\ Completed(t)
            /\ Succeeded(u) /\ Completed(u)
            => df = workers[u].outcome.value

\* C5: after a failed load has completed (and no other load is in flight),
\* the status line does not read as it does after a successful load.
C5_FailureShownInStatus ==
    /\ alive
    /\ workers # <<>>
    /\ ~dialog
    /\ \A t \in DOMAIN workers : Failed(t) /\ Completed(t)
    => status_line # "Finished opening"

\* C6: with the pool and the event loop scheduled fairly, every submitted
\* task's finished signal is eventually handled by the controller.
C6_EveryTaskCompletes ==
    \A t \in 1..MaxTasks :
        (t \in DOMAIN workers) ~> (t \in DOMAIN workers /\ Completed(t))

\* C7: open_file runs only on a pool thread, and the Dataset is written
\* only by a step of the main thread.
C7_Confinement ==
    [][/\ df' # df => ctx' = "main"
       /\ \A t \in DOMAIN workers :
              workers'[t].ran_on # workers[t].ran_on =>
                  /\ ctx' = "worker"
                  /\ workers'[t].ran_on = "worker"]_vars

C7_Witness ==
    /\ writes # <<>>
    /\ df = LastWritten
    /\ ctx = "main"
    /\ events # <<>>
    /\ \A t \in DOMAIN workers : Ran(t) => workers[t].ran_on = "worker"


(***************************************************************************)
(* Properties of the pipeline, stated on the record of the latest          *)
(* populate_list run (stages) and of the run before it (last).             *)
(***************************************************************************)
Returned(run) == run.ran /\ ~run.raised

Within(v, lim) == lim[1] <= v /\ v <= lim[2]

\* every sample of id lies in the box of the run, bounds included
EntirelyWithin(run, id) ==
    \A i \in DOMAIN run.frame.rows :
        LET s == run.frame.rows[i]
        IN  s.obj_id = id =>
                Within(s.x, run.xl) /\ Within(s.y, run.yl) /\ Within(s.z, run.zl)

\* C8: an id that passed the length filter survives the containment stage
\* exactly if every one of its samples is inside the box, bounds included.
C8_Containment ==
    Returned(stages) =>
        /\ stages.s2 \subseteq stages.s1
        /\ \A id \in stages.s1 : id \in stages.s2 <=> EntirelyWithin(stages, id)

\* one id is kept with a sample exactly on a bound, another is removed
C8_Witness ==
    /\ edits > 0
    /\ Returned(stages)
    /\ stages.frame = df /\ stages.xl = xlim
    /\ \E id \in stages.s2 :
          \E i \in DOMAIN df.rows :
              df.rows[i].obj_id = id /\ df.rows[i].x = xlim[1]
    /\ stages.s1 \ stages.s2 # {}

\* two samples of id lie at least d apart on axis a (its extent is >= d)
TravelsOn(run, id, a) ==
    \E i, j \in DOMAIN run.frame.rows :
        /\ run.frame.rows[i].obj_id = id
        /\ run.frame.rows[j].obj_id = id
        /\ run.frame.rows[i][a] - run.frame.rows[j][a] >= run.d

\* C9: an id that passed the containment stage survives the displacement
\* stage exactly if its extent on each selected axis is at least dist.
C9_Displacement ==
    Returned(stages) =>
        /\ stages.s3 \subseteq stages.s2
        /\ \A id \in stages.s2 :
              id \in stages.s3 <=>
                  \A k \in DOMAIN stages.ax : TravelsOn(stages, id, stages.ax[k])

\* an id survives with an extent equal to a positive threshold on each of
\* several selected axes
C9_Witness ==
    /\ edits > 0
    /\ Returned(stages)
    /\ stages.d > 0 /\ stages.d = dist
    /\ Len(stages.ax) >= 2 /\ stages.ax = axes_to_filter
    /\ \E id \in stages.s3 :
          \A k \in DOMAIN stages.ax :
              Extent(stages.frame.rows, id, stages.ax[k]) = stages.d

\* the criteria of run c are those of run p with min_obs raised, the box
\* shrunk or dist raised
Tighter(p, c) ==
    /\ c.frame = p.frame
    /\ c.ax = p.ax
    /\ c.mo >= p.mo
    /\ c.d >= p.d
    /\ c.xl[1] >= p.xl[1] /\ c.xl[2] <= p.xl[2]
    /\ c.yl[1] >= p.yl[1] /\ c.yl[2] <= p.yl[2]
    /\ c.zl[1] >= p.zl[1] /\ c.zl[2] <= p.zl[2]

\* C10: over the same Dataset, a run with tighter criteria than the run
\* before it never lists more ids.
C10_Monotone ==
    Returned(stages) /\ Returned(last) /\ Tighter(last, stages)
        => Len(obj_list) <= Len(last.items)

C10_Witness ==
    /\ edits > 0
    /\ Returned(stages) /\ Returned(last) /\ Tighter(last, stages)
    /\ obj_list = stages.items
    /\ Len(obj_list) < Len(last.items)

(***************************************************************************)
(* Properties of what reaches the pipeline and of what it displays.        *)
(***************************************************************************)
\* the criteria of a run break an invariant of FilterCriteria: a negative
\* min_obs, or the lower limit of an axis above its upper limit
InvalidCriteria(run) ==
    \/ run.mo < 0
    \/ \E lim \in {run.xl, run.yl, run.zl} : Len(lim) >= 2 /\ lim[1] > lim[2]

\* C11: a run of the pipeline on criteria that break an invariant ends in
\* an error, never in an ordinary (empty or non-empty) id list.
C11_InvalidCriteriaRejected ==
    stages.ran /\ InvalidCriteria(stages) => stages.raised

\* the path is empty (the dialog was cancelled) or does not end in .braidz
\* or .h5
Unloadable(path) == path = NoPath \/ path.ext \notin {".braidz", ".h5"}

\* C12: a load of an empty path or of a path with another extension fails:
\* the task emits error and then finished, never a result, no result of it
\* is delivered and it never replaces the Dataset.
C12_UnloadablePathFails ==
    \A t \in DOMAIN workers :
        Unloadable(workers[t].file) /\ Ran(t) =>
            /\ ~workers[t].outcome.ok
            /\ IsPrefix(workers[t].emitted, <<"error", "finished">>)
            /\ workers[t].pc = "done" =>
                   workers[t].emitted = <<"error", "finished">>
            /\ "result" \notin Range(workers[t].delivered)
            /\ t \notin Range(writes)

\* a cancelled dialog and a .txt path, both run to the end and handled
C12_Witness ==
    /\ \E t \in DOMAIN workers :
          /\ workers[t].file = NoPath
          /\ workers[t].emitted = <<"error", "finished">> /\ Completed(t)
    /\ \E t \in DOMAIN workers :
          /\ workers[t].file = Path("notes", ".txt")
          /\ workers[t].emitted = <<"error", "finished">> /\ Completed(t)
    /\ writes = <<>> /\ df = EmptyFrame

\* C13: the items of the list are in strictly ascending obj_id order (so no
\* id is listed twice), after every run of populate_list.
C13_StrictlyAscending ==
    stages.ran =>
        /\ obj_list = stages.items
        /\ \A j, k \in DOMAIN obj_list :
              j < k => IntOf(obj_list[j]) < IntOf(obj_list[k])

\* two ids whose texts are in the opposite order as strings
C13_Witness ==
    /\ edits > 0
    /\ Returned(stages)
    /\ obj_list = <<str(2), str(10)>>
    /\ stages.s3 = {2, 10}

\* run c was made on the Dataset and the criteria of run p
SameInputs(p, c) ==
    /\ c.frame = p.frame
    /\ c.mo = p.mo /\ c.d = p.d /\ c.ax = p.ax
    /\ c.xl = p.xl /\ c.yl = p.yl /\ c.zl = p.zl

\* C14: when populate_list runs twice in a row on the same Dataset and the
\* same criteria, the list displayed after the second run is the list of
\* the first run, same ids in the same order, nothing added to it.
C14_Idempotent ==
    stages.ran /\ last.ran /\ SameInputs(last, stages) =>
        /\ stages.raised = last.raised
        /\ obj_list = last.items

\* return pressed on an unchanged text: a second run with a non-empty list
C14_Witness ==
    /\ edits > 0
    /\ Returned(stages) /\ Returned(last) /\ SameInputs(last, stages)
    /\ obj_list # <<>>

\* C15: with min_obs = 0 the length stage returns exactly the obj_ids that
\* have a sample in the Dataset.
C15_ZeroKeepsEveryId ==
    Returned(stages) /\ stages.mo = 0 =>
        stages.s1 = {stages.frame.rows[i].obj_id : i \in DOMAIN stages.frame.rows}

\* "0" typed as the minimum: both ids of the table pass the length stage
C15_Witness ==
    /\ edits > 0
    /\ Returned(stages)
    /\ min_obs = 0 /\ stages.mo = 0 /\ stages.frame = df
    /\ stages.s1 = {2, 10}

\* C16: in every run the ids only narrow from stage to stage, starting from
\* the ids of the Dataset, and stages 2 and 3 are handed only samples of
\* ids that survived the stage before.
C16_OnlyNarrows ==
    Returned(stages) =>
        /\ stages.s3 \subseteq stages.s2
        /\ stages.s2 \subseteq stages.s1
        /\ stages.s1 \subseteq
               {stages.frame.rows[i].obj_id : i \in DOMAIN stages.frame.rows}
        /\ \A i \in DOMAIN stages.in2 : stages.in2[i].obj_id \in stages.s1
        /\ \A i \in DOMAIN stages.in3 : stages.in3[i].obj_id \in stages.s2

\* every stage removes an id and one id is left
C16_Witness ==
    /\ edits > 0
    /\ Returned(stages)
    /\ stages.s3 # {}
    /\ stages.s3 # stages.s2
    /\ stages.s2 # stages.s1
    /\ stages.s1 #
           {stages.frame.rows[i].obj_id : i \in DOMAIN stages.frame.rows}
    /\ Len(stages.in3) < Len(stages.in2)
    /\ Len(stages.in2) < Len(stages.frame.rows)

\* the Dataset stored by task w's result; 0: the frame of __init__
StoredBy(w) == IF w = 0 THEN EmptyFrame ELSE workers[w].outcome.value

\* C17: for a successful load the controller handles result before
\* finished, and the list filled when the load completes is computed from
\* the Dataset this load (or a load submitted after it) delivered, never
\* from the initial frame or a different Dataset of a load submitted
\* before it.
C17_ListFromNewDataset ==
    \A t \in DOMAIN workers :
        Succeeded(t) /\ Completed(t) =>
            /\ workers[t].delivered = <<"result", "finished">>
            /\ \/ workers[t].shown_from >= t
               \/ StoredBy(workers[t].shown_from) = workers[t].outcome.value

\* no load is in flight and no notification waits to be delivered
Idle ==
    /\ events = <<>>
    /\ \A t \in DOMAIN workers : workers[t].pc = "done" /\ Completed(t)

\* C18: whenever the program is idle, the displayed list is what the
\* pipeline gives for the current Dataset and the current criteria.
C18_ListMatchesState ==
    alive /\ Idle =>
        obj_list = populate_list(df, min_obs, xlim, ylim, zlim,
                                 axes_to_filter, dist).items

=============================================================================
